---- MODULE Spec2Model ----
(***************************************************************************)
(* Email archive demo (src/app.py): startup schema setup with its connect  *)
(* retry loop, the connection pool with its unpooled fallback, the four    *)
(* request handlers that use the database, and the search query builder.   *)
(*                                                                         *)
(* Encoding of values.  A text is a tuple of one-character strings, so    *)
(* '' is <<>> and ILIKE can be computed character by character.  A date   *)
(* literal is its day number (15 is 2024-01-15); the falsy date value of  *)
(* a request body ('' or 0) is 0.  A request body is a function whose     *)
(* domain is the set of keys it carries, so dict.get(key) is None exactly *)
(* when the key is outside the domain; a local holding an optional value  *)
(* is {} for None and {v} for v.  A nullable column is encoded the same.  *)
(***************************************************************************)
EXTENDS Integers, Sequences, FiniteSets, TLC

VARIABLES
    db,           \* committed contents of the PostgreSQL database
    initPc,       \* init_database: "running", "done" (returned True), "failed" (raised)
    retry_count,  \* init_database's retry_count
    attempts,     \* psycopg2.connect calls made by the current init_database run
    slept,        \* seconds spent in time.sleep by the current init_database run
    init_error,   \* exception class that left the last attempt, "none" if none
    db_pool,      \* module global db_pool: "pool", or "none" when its creation failed
    idle,         \* connections lying in the pool (SimpleConnectionPool._pool)
    checked_out,  \* connections handed out and not put back (SimpleConnectionPool._used)
    direct_open,  \* fallback connections opened by get_db_connection and not closed
    inflight,     \* per route, the handlers that hold a connection and have not returned
    request,      \* JSON body of the search most recently built
    built,        \* {} or {[where_conditions, params]}: what was built for it
    lastResp,     \* response most recently sent
    starts        \* process starts so far (the module is loaded once per start)

vars == <<db, initPc, retry_count, attempts, slept, init_error, db_pool, idle,
          checked_out, direct_open, inflight, request, built, lastResp, starts>>

-----------------------------------------------------------------------------
(* Program constants *)

max_retries == 30
RetryDelay == 2
minconn == 1
maxconn == 10
LIMIT == 50

(* Bounds of the model *)

BulkSize == 46        \* rows registered by one run of the external ingestion job
MaxEmails == 52       \* no ingestion run starts that would exceed this many rows
MaxSearches == 1      \* audited searches admitted in Spec
MaxHeld == 1          \* connections out of the pool or open at once in Spec
MaxHeldPool == 11     \* the same in SpecPool
MaxSearchesPool == 1  \* audited searches admitted in SpecPool
MaxStarts == 3        \* process starts in SpecStartup

Routes == {"health", "dashboard", "search", "woo"}

-----------------------------------------------------------------------------
(* Texts *)

Lower(c) ==
    CASE c = "D" -> "d"
      [] c = "M" -> "m"
      [] c = "S" -> "s"
      [] c = "W" -> "w"
      [] c = "O" -> "o"
      [] OTHER -> c

\* PostgreSQL's text ILIKE pattern: % matches any run, _ any one character,
\* everything else matches itself without regard to case.
RECURSIVE ILike(_, _)
ILike(text, pat) ==
    IF pat = <<>> THEN text = <<>>
    ELSE IF Head(pat) = "%"
         THEN ILike(text, Tail(pat)) \/ (text # <<>> /\ ILike(Tail(text), pat))
         ELSE /\ text # <<>>
              /\ (Head(pat) = "_" \/ Lower(Head(text)) = Lower(Head(pat)))
              /\ ILike(Tail(text), Tail(pat))

\* f'%{query}%'
Wrap(query) == <<"%">> \o query \o <<"%">>

-----------------------------------------------------------------------------
(* Fixture rows of init_database.  Each text is cut to a keyword of it.    *)

SampleEmail(k) ==
    CASE k = 1 -> [message_id |-> <<"demo", 1>>, sender_email |-> <<"j","d">>,
                   recipient_email |-> <<"t","m">>, subject |-> <<"D","M","S">>,
                   sent_date |-> 15, classification |-> "intern"]
      [] k = 2 -> [message_id |-> <<"demo", 2>>, sender_email |-> <<"b","u">>,
                   recipient_email |-> <<"i","n">>, subject |-> <<"W","O","O">>,
                   sent_date |-> 16, classification |-> "openbaar"]
      [] k = 3 -> [message_id |-> <<"demo", 3>>, sender_email |-> <<"w","e">>,
                   recipient_email |-> <<"g","r">>, subject |-> <<"a","g">>,
                   sent_date |-> 17, classification |-> "vertrouwelijk"]
      [] k = 4 -> [message_id |-> <<"demo", 4>>, sender_email |-> <<"p","r">>,
                   recipient_email |-> <<"c","i">>, subject |-> <<"M","i","n">>,
                   sent_date |-> 18, classification |-> "intern"]
      [] OTHER -> [message_id |-> <<"demo", 5>>, sender_email |-> <<"j","o">>,
                   recipient_email |-> <<"w","o","o">>, subject |-> <<"d","i","g">>,
                   sent_date |-> 19, classification |-> "openbaar"]

sample_emails == [k \in 1..5 |-> SampleEmail(k)]

SampleWooRequestId == "WOO-2024-001"

AuditSource(k) ==
    CASE k = 1 -> "exchange_transport"
      [] k = 2 -> "external_email"
      [] k = 3 -> "internal_email"
      [] k = 4 -> "project_email"
      [] OTHER -> "external_email"

\* (email_id, action, user_id, details): the email ids are the literals 1..5
audit_logs ==
    [k \in 1..5 |-> [email_id |-> {k}, action |-> "created", user_id |-> "system",
                     details |-> [source |-> AuditSource(k)]]]

-----------------------------------------------------------------------------
(* search_emails: the query builder *)

Get(data, key) == IF key \in DOMAIN data THEN {data[key]} ELSE {}

\* data.get('query', '')
QueryOf(data) == IF "query" \in DOMAIN data THEN data["query"] ELSE <<>>

QueryCond == [op |-> "ILIKE", cols |-> <<"subject", "sender_email", "recipient_email">>]
DateFromCond == [op |-> ">=", cols |-> <<"sent_date">>]
DateToCond == [op |-> "<=", cols |-> <<"sent_date">>]
ClassificationCond == [op |-> "=", cols |-> <<"classification">>]

EmptyBuild == [where_conditions |-> <<>>, params |-> <<>>]

\* if query:
AddQuery(b, query) ==
    IF query # <<>>
    THEN [where_conditions |-> Append(b.where_conditions, QueryCond),
          params |-> b.params \o <<Wrap(query), Wrap(query), Wrap(query)>>]
    ELSE b

\* if date_from:
AddDateFrom(b, date_from) ==
    IF \E v \in date_from : v # 0
    THEN [where_conditions |-> Append(b.where_conditions, DateFromCond),
          params |-> Append(b.params, CHOOSE v \in date_from : TRUE)]
    ELSE b

\* if date_to:
AddDateTo(b, date_to) ==
    IF \E v \in date_to : v # 0
    THEN [where_conditions |-> Append(b.where_conditions, DateToCond),
          params |-> Append(b.params, CHOOSE v \in date_to : TRUE)]
    ELSE b

\* AddClassification without the test for the sentinel: if classification:
AddClassificationNoSentinel(b, classification) ==
    IF \E v \in classification : v # ""
    THEN [where_conditions |-> Append(b.where_conditions, ClassificationCond),
          params |-> Append(b.params, CHOOSE v \in classification : TRUE)]
    ELSE b

\* if classification and classification != 'all':
AddClassification(b, classification) ==
    IF \E v \in classification : v # "" /\ v # "all"
    THEN [where_conditions |-> Append(b.where_conditions, ClassificationCond),
          params |-> Append(b.params, CHOOSE v \in classification : TRUE)]
    ELSE b

BuildQuery(data) ==
    AddClassification(
        AddDateTo(
            AddDateFrom(
                AddQuery(EmptyBuild, QueryOf(data)),
                Get(data, "date_from")),
            Get(data, "date_to")),
        Get(data, "classification"))

\* The %s placeholders of the WHERE clause, left to right, each named by the
\* comparison it stands in; <<>> when there is no WHERE clause.
RECURSIVE Placeholders(_)
Placeholders(conds) ==
    IF conds = <<>> THEN <<>>
    ELSE [i \in 1..Len(Head(conds).cols) |->
             [op |-> Head(conds).op, col |-> Head(conds).cols[i]]]
         \o Placeholders(Tail(conds))

-----------------------------------------------------------------------------
(* What PostgreSQL computes for the statements of search_emails *)

Compare(op, x, p) ==
    CASE op = "ILIKE" -> ILike(x, p)
      [] op = ">=" -> x >= p
      [] op = "<=" -> x <= p
      [] OTHER -> x = p

\* The conditions are joined by AND, the columns of one condition by OR; the
\* parameters are bound to the placeholders by position.
RECURSIVE EvalWhere(_, _, _)
EvalWhere(row, conds, ps) ==
    IF conds = <<>> THEN TRUE
    ELSE LET c == Head(conds)
             n == Len(c.cols)
         IN  /\ \E i \in 1..n : Compare(c.op, row[c.cols[i]], ps[i])
             /\ EvalWhere(row, Tail(conds), SubSeq(ps, n + 1, Len(ps)))

\* OrderBySentDateDesc with the direction left out: ORDER BY sent_date
OrderBySentDateAsc(rows) == SortSeq(rows, LAMBDA a, b : a.sent_date < b.sent_date)

\* ORDER BY sent_date DESC (rows of equal sent_date come in an order the
\* engine picks; the rows of this model have distinct dates)
OrderBySentDateDesc(rows) == SortSeq(rows, LAMBDA a, b : a.sent_date > b.sent_date)

Limit(s, n) == SubSeq(s, 1, IF Len(s) < n THEN Len(s) ELSE n)

\* cursor.execute(query_sql, params); cursor.fetchall()
SelectEmails(d, b) ==
    Limit(OrderBySentDateDesc(
              SelectSeq(d.email_metadata,
                        LAMBDA r : EvalWhere(r, b.where_conditions, b.params))),
          LIMIT)

\* psycopg2 refuses a parameter list that does not fit the placeholders
ExecuteAccepts(b) == Len(b.params) = Len(Placeholders(b.where_conditions))

-----------------------------------------------------------------------------
(* The database *)

FreshDb ==
    [tables |-> FALSE, email_metadata |-> <<>>, email_seq |-> 1,
     woo_requests |-> {}, woo_seq |-> 1, email_audit_log |-> <<>>, audit_seq |-> 1]

\* INSERT INTO email_metadata: the SERIAL id is drawn from the sequence
InsertEmails(d, rows) ==
    [d EXCEPT !.email_metadata =
                  @ \o [k \in 1..Len(rows) |-> [id |-> d.email_seq + k - 1] @@ rows[k]],
              !.email_seq = @ + Len(rows)]

\* InsertAudit writing over the newest row instead of adding one
InsertAuditOverLast(d, e) ==
    [d EXCEPT !.email_audit_log =
                  IF @ = <<>> THEN <<[id |-> d.audit_seq] @@ e>>
                  ELSE [@ EXCEPT ![Len(@)] = [id |-> d.audit_seq] @@ e],
              !.audit_seq = @ + 1]

\* INSERT INTO email_audit_log
InsertAudit(d, e) ==
    [d EXCEPT !.email_audit_log = Append(@, [id |-> d.audit_seq] @@ e),
              !.audit_seq = @ + 1]

\* email_id INTEGER REFERENCES email_metadata(id)
AuditReferenceOk(d, e) ==
    \A k \in e.email_id : \E i \in 1..Len(d.email_metadata) : d.email_metadata[i].id = k

\* for log_data in audit_logs: cursor.execute(INSERT ...); stops at the first
\* insert the engine rejects
RECURSIVE InsertAuditLogs(_, _)
InsertAuditLogs(d, logs) ==
    IF logs = <<>> THEN [ok |-> TRUE, db |-> d]
    ELSE IF AuditReferenceOk(d, Head(logs))
         THEN InsertAuditLogs(InsertAudit(d, Head(logs)), Tail(logs))
         ELSE [ok |-> FALSE, db |-> [d EXCEPT !.audit_seq = @ + 1]]

\* SeedNeeded without the emptiness check
SeedAlways(d) == TRUE

\* if count == 0:
SeedNeeded(d) == Len(d.email_metadata) = 0

\* The statements of one init_database attempt after the connection is made,
\* up to conn.commit(): [ok, db] where db is the transaction's view at its end.
SetupTransaction(d) ==
    LET created == [d EXCEPT !.tables = TRUE]
    IN  IF ~SeedNeeded(created) THEN [ok |-> TRUE, db |-> created]
        ELSE IF \E i \in 1..Len(created.email_metadata), k \in 1..5 :
                    created.email_metadata[i].message_id = sample_emails[k].message_id
             THEN [ok |-> FALSE, db |-> [created EXCEPT !.email_seq = @ + 1]]
        ELSE LET withEmails == InsertEmails(created, sample_emails)
             IN  IF \E w \in withEmails.woo_requests : w.request_id = SampleWooRequestId
                 THEN [ok |-> FALSE, db |-> [withEmails EXCEPT !.woo_seq = @ + 1]]
                 ELSE InsertAuditLogs(
                          [withEmails EXCEPT
                               !.woo_requests = @ \cup {[id |-> withEmails.woo_seq,
                                                         request_id |-> SampleWooRequestId,
                                                         status |-> "processing"]},
                               !.woo_seq = @ + 1],
                          audit_logs)

\* What is left in the database when the transaction is abandoned: its rows
\* and the tables it created are gone, the values it drew from sequences that
\* existed before it are not given back.
RolledBack(d, t) ==
    IF d.tables
    THEN [d EXCEPT !.email_seq = t.email_seq, !.woo_seq = t.woo_seq,
                   !.audit_seq = t.audit_seq]
    ELSE d

-----------------------------------------------------------------------------
(* Module load: db_pool = SimpleConnectionPool(1, 10), or None on failure *)

startupVars == <<initPc, retry_count, attempts, slept, init_error>>
poolVars == <<db_pool, idle, checked_out, direct_open, inflight>>
searchVars == <<request, built>>

NoResponse ==
    [route |-> "", status |-> 0, body |-> "", error |-> "", results |-> <<>>, total |-> {}]

\* The pool opens minconn connections when it is created
PoolCreated(pool) ==
    /\ db_pool' = pool
    /\ idle' = IF pool = "pool" THEN minconn ELSE 0
    /\ checked_out' = 0
    /\ direct_open' = 0
    /\ inflight' = [r \in Routes |-> 0]

-----------------------------------------------------------------------------
(* init_database *)

\* while retry_count < max_retries:
LoopContinues(rc) == rc < max_retries

\* AfterOperationalError off by one: if retry_count <= max_retries
AfterOperationalErrorOffByOne(rc) == IF rc <= max_retries THEN "sleep" ELSE "raise"

\* after retry_count += 1: if retry_count < max_retries: time.sleep(2) else: raise
AfterOperationalError(rc) == IF rc < max_retries THEN "sleep" ELSE "raise"

\* psycopg2.connect raises OperationalError
init_connect_fails ==
    /\ initPc = "running"
    /\ LoopContinues(retry_count)
    /\ attempts' = attempts + 1
    /\ retry_count' = retry_count + 1
    /\ IF AfterOperationalError(retry_count + 1) = "sleep"
       THEN /\ slept' = slept + RetryDelay
            /\ initPc' = IF LoopContinues(retry_count + 1) THEN "running" ELSE "fell_through"
            /\ init_error' = "none"
       ELSE /\ slept' = slept
            /\ initPc' = "failed"
            /\ init_error' = "OperationalError"
    /\ UNCHANGED <<db, poolVars, searchVars, lastResp, starts>>

\* a statement raises an error that is not an OperationalError and that the
\* database's contents do not decide (a statement the server refuses)
init_statement_fails ==
    /\ initPc = "running"
    /\ LoopContinues(retry_count)
    /\ attempts' = attempts + 1
    /\ initPc' = "failed"
    /\ init_error' = "ProgrammingError"
    /\ UNCHANGED <<db, retry_count, slept, poolVars, searchVars, lastResp, starts>>

\* the connection is made and every statement is run: the attempt commits and
\* returns True (the call is over and its locals are gone), or an insert
\* violates a constraint and the error is raised
init_attempt_runs ==
    /\ initPc = "running"
    /\ LoopContinues(retry_count)
    /\ LET t == SetupTransaction(db)
       IN  IF t.ok
           THEN /\ db' = t.db
                /\ initPc' = "done"
                /\ init_error' = "none"
                /\ retry_count' = 0
                /\ attempts' = 0
                /\ slept' = 0
           ELSE /\ db' = RolledBack(db, t.db)
                /\ initPc' = "failed"
                /\ init_error' = "IntegrityError"
                /\ attempts' = attempts + 1
                /\ UNCHANGED <<retry_count, slept>>
    /\ UNCHANGED <<poolVars, searchVars, lastResp, starts>>

init_database == init_connect_fails \/ init_statement_fails \/ init_attempt_runs

-----------------------------------------------------------------------------
(* get_db_connection, return_db_connection *)

\* [ok, error] and the pool's counters after the call; connects says whether
\* psycopg2.connect succeeds should the call open a connection.  getconn pops
\* a connection lying in the pool, else raises PoolError when maxconn are in
\* use, else connects.  A call on the pool is taken as one step.
get_db_connection(connects) ==
    IF db_pool = "pool"
    THEN IF idle > 0
         THEN [ok |-> TRUE, error |-> "", idle |-> idle - 1,
               checked_out |-> checked_out + 1, direct_open |-> direct_open]
         ELSE IF checked_out = maxconn
         THEN [ok |-> FALSE, error |-> "PoolError", idle |-> idle,
               checked_out |-> checked_out, direct_open |-> direct_open]
         ELSE IF connects
         THEN [ok |-> TRUE, error |-> "", idle |-> idle,
               checked_out |-> checked_out + 1, direct_open |-> direct_open]
         ELSE [ok |-> FALSE, error |-> "OperationalError", idle |-> idle,
               checked_out |-> checked_out, direct_open |-> direct_open]
    ELSE IF connects
         THEN [ok |-> TRUE, error |-> "", idle |-> idle,
               checked_out |-> checked_out, direct_open |-> direct_open + 1]
         ELSE [ok |-> FALSE, error |-> "OperationalError", idle |-> idle,
               checked_out |-> checked_out, direct_open |-> direct_open]

\* the pool's counters after return_db_connection(conn): putconn keeps the
\* connection while fewer than minconn lie in the pool and closes it otherwise
return_db_connection ==
    IF db_pool = "pool"
    THEN [idle |-> IF idle < minconn THEN idle + 1 ELSE idle,
          checked_out |-> checked_out - 1, direct_open |-> direct_open]
    ELSE [idle |-> idle, checked_out |-> checked_out, direct_open |-> direct_open - 1]

\* Released with the open transaction committed instead of rolled back
ReleasedCommitting(d, t) == t

\* the database after return_db_connection(conn), d being what is committed
\* and t the view of conn's transaction: putconn rolls an open transaction
\* back, close() abandons it
Released(d, t) == RolledBack(d, t)

SetPool(c) ==
    /\ idle' = c.idle
    /\ checked_out' = c.checked_out
    /\ direct_open' = c.direct_open

Response(route, status, body, error) ==
    [route |-> route, status |-> status, body |-> body, error |-> error,
     results |-> <<>>, total |-> {}]

\* inserts into email_audit_log made after the fixture's, committed or not
SearchInserts(d) == d.audit_seq - 1 - Len(audit_logs)

-----------------------------------------------------------------------------
(* Request handlers.  A handler takes two steps: up to and including        *)
(* conn = get_db_connection(), and everything after it.                     *)

\* the error body of a route: JSON for /health and /api/search, text otherwise
ErrorBody(route) ==
    IF route = "health" THEN "unhealthy" ELSE IF route = "search" THEN "error" ELSE "text"

handler_acquires(route, cap, searchCap) ==
    /\ initPc = "done"
    /\ checked_out + direct_open < cap
    /\ route = "search" => SearchInserts(db) + inflight["search"] < searchCap
    /\ \E readable \in BOOLEAN, connects \in BOOLEAN :
          IF route = "search" /\ ~readable
          THEN \* data = request.json raises, or data.get does
               /\ lastResp' = Response(route, 500, "error", "BadRequest")
               /\ UNCHANGED <<idle, checked_out, direct_open, inflight>>
          ELSE LET a == get_db_connection(connects)
               IN  /\ SetPool(a)
                   /\ IF a.ok
                      THEN inflight' = [inflight EXCEPT ![route] = @ + 1]
                           /\ lastResp' = lastResp
                      ELSE inflight' = inflight
                           /\ lastResp' = Response(route, 500, ErrorBody(route), a.error)
    /\ UNCHANGED <<db, startupVars, db_pool, searchVars, starts>>

\* health_check has no finally: the connection is returned on success only
health_check_returns ==
    /\ inflight["health"] > 0
    /\ inflight' = [inflight EXCEPT !["health"] = @ - 1]
    /\ \E ok \in BOOLEAN :
          IF ok
          THEN SetPool(return_db_connection)
               /\ lastResp' = Response("health", 200, "healthy", "")
          ELSE UNCHANGED <<idle, checked_out, direct_open>>
               /\ lastResp' = Response("health", 500, "unhealthy", "DatabaseError")
    /\ UNCHANGED <<db, startupVars, db_pool, searchVars, starts>>

\* dashboard and woo_dashboard only read; finally returns the connection
page_returns(route) ==
    /\ route \in {"dashboard", "woo"}
    /\ inflight[route] > 0
    /\ inflight' = [inflight EXCEPT ![route] = @ - 1]
    /\ SetPool(return_db_connection)
    /\ \E ok \in BOOLEAN :
          lastResp' = IF ok THEN Response(route, 200, "html", "")
                      ELSE Response(route, 500, "text", "DatabaseError")
    /\ UNCHANGED <<db, startupVars, db_pool, searchVars, starts>>

\* SearchAuditEntry logging the bound pattern instead of the query text
SearchAuditEntryPattern(data, results) ==
    [email_id |-> {}, action |-> "search", user_id |-> "demo_user",
     details |-> [query |-> Wrap(QueryOf(data)), results_count |-> Len(results)]]

\* json.dumps({'query': query, 'results_count': len(results)}) and its row
SearchAuditEntry(data, results) ==
    [email_id |-> {}, action |-> "search", user_id |-> "demo_user",
     details |-> [query |-> QueryOf(data), results_count |-> Len(results)]]

\* 'total': len(results)
Total(results) == Len(results)

\* search_emails after the connection is acquired; fault names the statement
\* that raises, if any, among those of faults
search_emails_returns(data, faults) ==
    /\ inflight["search"] > 0
    /\ inflight' = [inflight EXCEPT !["search"] = @ - 1]
    /\ SetPool(return_db_connection)
    /\ LET b == BuildQuery(data)
           rows == SelectEmails(db, b)
       IN
       \E fault \in faults :
       LET selected == fault # "select" /\ ExecuteAccepts(b)
           results == IF selected THEN rows ELSE <<>>
           t == IF selected /\ fault # "insert"
                THEN InsertAudit(db, SearchAuditEntry(data, results))
                ELSE db
           committed == selected /\ fault = "none"
       IN  /\ request' = data
           /\ built' = {b}
           /\ db' = Released(IF committed THEN t ELSE db, t)
           /\ lastResp' =
                 IF committed
                 THEN [route |-> "search", status |-> 200, body |-> "results",
                       error |-> "", results |-> [i \in 1..Len(results) |-> results[i].id],
                       total |-> {Total(results)}]
                 ELSE Response("search", 500, "error", "DatabaseError")
    /\ UNCHANGED <<startupVars, db_pool, starts>>

-----------------------------------------------------------------------------
(* The surroundings: the ingestion job, an operator's delete, a restart *)

IngestedEmail(id) ==
    [message_id |-> <<"ext", id>>, sender_email |-> <<"x">>,
     recipient_email |-> <<"i","n">>,
     subject |-> IF id % 2 = 0 THEN <<"d","m","s">> ELSE <<"n","o">>,
     sent_date |-> 19 + id,
     classification |-> IF id % 3 = 0 THEN "intern"
                        ELSE IF id % 3 = 1 THEN "openbaar" ELSE "unclassified"]

\* the external job registers a batch of archived emails
Ingest ==
    /\ db.tables
    /\ Len(db.email_metadata) + BulkSize <= MaxEmails
    /\ db' = InsertEmails(db, [k \in 1..BulkSize |-> IngestedEmail(db.email_seq + k - 1)])
    /\ UNCHANGED <<startupVars, poolVars, searchVars, lastResp, starts>>

\* an operator empties email_metadata by hand, with the audit rows that
\* reference it; the WOO requests and the sequences are reset or kept
ManualDelete(withWoo, restartIdentity) ==
    /\ initPc \in {"done", "failed"}
    /\ starts < MaxStarts
    /\ db.tables
    /\ db.email_metadata # <<>>
    /\ db' = [tables |-> TRUE,
              email_metadata |-> <<>>,
              email_audit_log |-> <<>>,
              woo_requests |-> IF withWoo THEN {} ELSE db.woo_requests,
              email_seq |-> IF restartIdentity THEN 1 ELSE db.email_seq,
              audit_seq |-> IF restartIdentity THEN 1 ELSE db.audit_seq,
              woo_seq |-> IF restartIdentity /\ withWoo THEN 1 ELSE db.woo_seq]
    /\ UNCHANGED <<startupVars, poolVars, searchVars, lastResp, starts>>

\* the process is started again: the module is loaded, init_database is called
Restart ==
    /\ initPc \in {"done", "failed"}
    /\ starts < MaxStarts
    /\ starts' = starts + 1
    /\ \E pool \in {"pool", "none"} : PoolCreated(pool)
    /\ initPc' = "running"
    /\ retry_count' = 0
    /\ attempts' = 0
    /\ slept' = 0
    /\ init_error' = "none"
    /\ lastResp' = NoResponse
    /\ UNCHANGED <<db, searchVars>>

-----------------------------------------------------------------------------
(* Request bodies *)

Field(key, opt) == IF opt = {} THEN <<>> ELSE key :> (CHOOSE v \in opt : TRUE)

Body(q, f, t, c) ==
    Field("query", q) @@ Field("date_from", f) @@ Field("date_to", t)
        @@ Field("classification", c)

QueryValues == {{}, {<<>>}, {<<"d","m","s">>}, {<<"o">>}}
DateValues == {{}, {0}, {17}, {21}}
ClassificationValues == {{}, {""}, {"all"}, {"intern"}, {"vertrouwelijk"}}

AllBodies ==
    {Body(q, f, t, c) : q \in QueryValues, f \in DateValues, t \in DateValues,
                        c \in ClassificationValues}

Bodies == {Body({}, {0}, {}, {"all"}), Body({<<"d","m","s">>}, {16}, {60}, {"intern"})}

BodiesPool == {Body({<<"o">>}, {}, {}, {"intern"})}

Faults == {"none", "select", "insert", "commit"}

-----------------------------------------------------------------------------
(* Specifications *)

Init ==
    /\ db = FreshDb
    /\ initPc = "running"
    /\ retry_count = 0
    /\ attempts = 0
    /\ slept = 0
    /\ init_error = "none"
    /\ db_pool \in {"pool", "none"}
    /\ idle = IF db_pool = "pool" THEN minconn ELSE 0
    /\ checked_out = 0
    /\ direct_open = 0
    /\ inflight = [r \in Routes |-> 0]
    /\ request = <<>>
    /\ built = {}
    /\ lastResp = NoResponse
    /\ starts = 1

\* one start of the process, then requests and ingestion
Next ==
    \/ init_database
    \/ \E route \in Routes : handler_acquires(route, MaxHeld, MaxSearches)
    \/ health_check_returns
    \/ \E route \in {"dashboard", "woo"} : page_returns(route)
    \/ \E data \in Bodies : search_emails_returns(data, Faults)
    \/ Ingest

Spec == Init /\ [][Next]_vars

\* the pool under load: more handlers, fewer request bodies, no ingestion
NextPool ==
    \/ init_database
    \/ \E route \in Routes : handler_acquires(route, MaxHeldPool, MaxSearchesPool)
    \/ health_check_returns
    \/ \E route \in {"dashboard", "woo"} : page_returns(route)
    \/ \E data \in BodiesPool : search_emails_returns(data, Faults)

SpecPool == Init /\ [][NextPool]_vars

\* schema setup over restarts of the process and an operator's deletes; the
\* retry loop is sequential code, so an attempt that can be made is made
NextStartup ==
    \/ init_database
    \/ Restart
    \/ \E withWoo \in BOOLEAN, restartIdentity \in BOOLEAN :
          ManualDelete(withWoo, restartIdentity)

SpecStartup == Init /\ [][NextStartup]_vars /\ WF_vars(init_database)

\* starts of the process and the requests served between them
NextLog ==
    \/ init_database
    \/ Restart
    \/ \E route \in Routes : handler_acquires(route, MaxHeld, MaxSearches)
    \/ health_check_returns
    \/ \E route \in {"dashboard", "woo"} : page_returns(route)
    \/ \E data \in Bodies : search_emails_returns(data, Faults)

SpecLog == Init /\ [][NextLog]_vars

\* the query builder alone, over every request body
InitBuild ==
    /\ db = SetupTransaction(FreshDb).db
    /\ initPc = "done"
    /\ retry_count = 0
    /\ attempts = 0
    /\ slept = 0
    /\ init_error = "none"
    /\ db_pool = "pool"
    /\ idle = minconn
    /\ checked_out = 0
    /\ direct_open = 0
    /\ inflight = [r \in Routes |-> 0]
    /\ request \in AllBodies
    /\ built = {}
    /\ lastResp = NoResponse
    /\ starts = 1

build_query ==
    /\ built' = {BuildQuery(request)}
    /\ UNCHANGED <<db, startupVars, poolVars, request, lastResp, starts>>

SpecBuild == InitBuild /\ [][build_query]_vars

-----------------------------------------------------------------------------
(* Properties *)

Held == inflight["health"] + inflight["dashboard"] + inflight["search"] + inflight["woo"]

\* a step in which a search handler that held a connection returns
SearchReturned == inflight'["search"] = inflight["search"] - 1

Rows(d) == <<d.email_metadata, d.woo_requests, d.email_audit_log>>

IsPrefix(s, t) == Len(s) <= Len(t) /\ SubSeq(t, 1, Len(s)) = s

\* C1: each handler that uses the database releases the one connection it
\* acquired on every exit path, so when no handler is in flight no connection
\* is checked out of the pool or left open.
C1_AllReleased == Held = 0 => (checked_out = 0 /\ direct_open = 0)

\* C2: a search that returns successfully commits exactly one new audit row,
\* with action "search", a null email reference, the submitted query text and
\* a results_count equal to the total of the same response; no other row is
\* added.
C2_SearchAudited ==
    [][(SearchReturned /\ lastResp'.status = 200) =>
          LET old == db.email_audit_log
              new == db'.email_audit_log
          IN  /\ Len(new) = Len(old) + 1
              /\ IsPrefix(old, new)
              /\ new[Len(new)].action = "search"
              /\ new[Len(new)].email_id = {}
              /\ new[Len(new)].details.query = QueryOf(request')
              /\ {new[Len(new)].details.results_count} = lastResp'.total
              /\ db'.email_metadata = db.email_metadata
              /\ db'.woo_requests = db.woo_requests]_vars

C2_Witness ==
    /\ lastResp.route = "search"
    /\ lastResp.status = 200
    /\ Len(db.email_audit_log) = Len(audit_logs) + 1
    /\ LET e == db.email_audit_log[Len(db.email_audit_log)]
       IN  /\ e.action = "search"
           /\ e.details.query = <<"d","m","s">>
           /\ e.details.results_count > 0
           /\ lastResp.total = {e.details.results_count}

HasText(data, key) == key \in DOMAIN data /\ data[key] # <<>>
HasDate(data, key) == key \in DOMAIN data /\ data[key] # 0
HasClassification(data) ==
    "classification" \in DOMAIN data /\ data["classification"] \notin {"", "all"}

ExpectedPlaceholders(data) ==
    (IF HasText(data, "query")
     THEN <<[op |-> "ILIKE", col |-> "subject"], [op |-> "ILIKE", col |-> "sender_email"],
            [op |-> "ILIKE", col |-> "recipient_email"]>>
     ELSE <<>>)
    \o (IF HasDate(data, "date_from") THEN <<[op |-> ">=", col |-> "sent_date"]>> ELSE <<>>)
    \o (IF HasDate(data, "date_to") THEN <<[op |-> "<=", col |-> "sent_date"]>> ELSE <<>>)
    \o (IF HasClassification(data)
        THEN <<[op |-> "=", col |-> "classification"]>> ELSE <<>>)

ExpectedParams(data) ==
    (IF HasText(data, "query")
     THEN LET w == <<"%">> \o data["query"] \o <<"%">> IN <<w, w, w>>
     ELSE <<>>)
    \o (IF HasDate(data, "date_from") THEN <<data["date_from"]>> ELSE <<>>)
    \o (IF HasDate(data, "date_to") THEN <<data["date_to"]>> ELSE <<>>)
    \o (IF HasClassification(data) THEN <<data["classification"]>> ELSE <<>>)

\* C3: for every subset of the filters present (empty and "all" values
\* included) the parameter list is as long as the WHERE clause has
\* placeholders and its i-th parameter is the value of the i-th placeholder:
\* the wrapped query three times, then date_from, date_to, classification;
\* with no filter there is no WHERE clause and no parameter.
C3_ParamsMatchPlaceholders ==
    \A b \in built :
        /\ Len(b.params) = Len(Placeholders(b.where_conditions))
        /\ Placeholders(b.where_conditions) = ExpectedPlaceholders(request)
        /\ b.params = ExpectedParams(request)
        /\ (~HasText(request, "query") /\ ~HasDate(request, "date_from")
            /\ ~HasDate(request, "date_to") /\ ~HasClassification(request))
           => (b.where_conditions = <<>> /\ b.params = <<>>)

C3_Witness ==
    \E b \in built :
        /\ DOMAIN request = {"query", "date_from", "date_to", "classification"}
        /\ Len(b.where_conditions) = 2
        /\ Len(b.params) = 4
        /\ request["classification"] = "all"
        /\ request["date_from"] = 0

\* C4: a run of schema setup on a database an earlier run has set up succeeds
\* and changes nothing: no constraint is violated, and when it returns the
\* database is what it was, with 5 emails, 1 WOO request and 5 audit rows.
C4_SecondRunAddsNothing ==
    [][(initPc = "running" /\ starts > 1 /\ db.email_metadata # <<>>) =>
          /\ init_error' # "IntegrityError"
          /\ initPc' = "done" =>
                /\ db' = db
                /\ Len(db'.email_metadata) = 5
                /\ Cardinality(db'.woo_requests) = 1
                /\ Len(db'.email_audit_log) = 5]_vars

C4_Witness ==
    /\ starts = 2
    /\ initPc = "done"
    /\ db.email_seq = 6
    /\ db.audit_seq = 6
    /\ db.woo_seq = 2
    /\ Len(db.email_metadata) = 5

C5_Counts ==
    /\ attempts <= max_retries
    /\ initPc # "fell_through"
    /\ initPc = "running" =>
          /\ retry_count < max_retries
          /\ attempts = retry_count
          /\ slept = RetryDelay * retry_count
    /\ (initPc = "failed" /\ init_error = "OperationalError") =>
          /\ retry_count = max_retries
          /\ attempts = max_retries
          /\ slept = RetryDelay * (max_retries - 1)
    /\ (initPc = "failed" /\ init_error # "OperationalError") =>
          /\ attempts = retry_count + 1
          /\ slept = RetryDelay * retry_count

\* C5: a connection failure is retried after a 2 second sleep, at most 30
\* attempts are made, the 30th consecutive failure raises without a further
\* sleep, any other error raises on the attempt where it occurs, and every
\* run of schema setup ends, returning or raising.
C5_RetryBounded ==
    /\ []C5_Counts
    /\ (initPc = "running") ~> (initPc \in {"done", "failed"})

C5_Witness ==
    /\ initPc = "failed"
    /\ init_error = "OperationalError"
    /\ attempts = max_retries
    /\ slept = RetryDelay * (max_retries - 1)

\* C6: whenever schema setup finds email_metadata empty (a fresh database, or
\* one emptied after an earlier seeding) it completes and leaves 5 emails and
\* 5 audit rows, each audit row referencing one of the emails.
C6_ReseedsWhenEmpty ==
    [][(/\ initPc = "running"
        /\ db.email_metadata = <<>>
        /\ initPc' \in {"done", "failed"}
        /\ init_error' \notin {"OperationalError", "ProgrammingError"}) =>
          /\ initPc' = "done"
          /\ Len(db'.email_metadata) = 5
          /\ Len(db'.email_audit_log) = 5
          /\ \A i \in 1..Len(db'.email_audit_log) :
                /\ db'.email_audit_log[i].email_id # {}
                /\ AuditReferenceOk(db', db'.email_audit_log[i])]_vars

\* C7: when all 10 connections of the pool are checked out by handlers in
\* flight, a further handler's acquire does not fail: no request is answered
\* with a pool error.
C7_AcquireWaits ==
    [][(db_pool = "pool" /\ Held = maxconn /\ checked_out = maxconn) =>
          lastResp'.error # "PoolError"]_vars

Contains(text, q) ==
    \E k \in 0..(Len(text) - Len(q)) :
        \A i \in 1..Len(q) : Lower(text[k + i]) = Lower(q[i])

Matches(row, data) ==
    /\ HasText(data, "query") =>
          \/ Contains(row.subject, data["query"])
          \/ Contains(row.sender_email, data["query"])
          \/ Contains(row.recipient_email, data["query"])
    /\ HasDate(data, "date_from") => row.sent_date >= data["date_from"]
    /\ HasDate(data, "date_to") => row.sent_date <= data["date_to"]
    /\ HasClassification(data) => row.classification = data["classification"]

Matching(d, data) ==
    {i \in 1..Len(d.email_metadata) : Matches(d.email_metadata[i], data)}

SentDateOf(d, id) ==
    d.email_metadata[CHOOSE k \in 1..Len(d.email_metadata) :
                         d.email_metadata[k].id = id].sent_date

\* the rows returned are rows that match, none twice, newest first, as many
\* as match up to LIMIT, and no matching row left out is newer than one returned
ReturnedRowsRight(d, data, resp) ==
    LET m == Matching(d, data)
        matchingIds == {d.email_metadata[k].id : k \in m}
        n == Len(resp.results)
        returned == {resp.results[i] : i \in 1..n}
        dates == [i \in 1..n |-> SentDateOf(d, resp.results[i])]
    IN  /\ n <= LIMIT
        /\ n = (IF Cardinality(m) < LIMIT THEN Cardinality(m) ELSE LIMIT)
        /\ returned \subseteq matchingIds
        /\ Cardinality(returned) = n
        /\ \A i \in 1..(n - 1) : dates[i] >= dates[i + 1]
        /\ \A k \in m :
              \/ d.email_metadata[k].id \in returned
              \/ d.email_metadata[k].sent_date <= dates[n]

\* C8 as stated: a successful search returns the matching rows, at most 50,
\* ordered by sent date descending, with a total that is the count of all
\* rows matching the filters.
C8_TotalIsMatchCount ==
    [][(SearchReturned /\ lastResp'.status = 200) =>
          /\ ReturnedRowsRight(db, request', lastResp')
          /\ lastResp'.total = {Cardinality(Matching(db, request'))}]_vars

\* C8 with the total as the code computes it: a successful search returns the
\* matching rows, at most 50, ordered by sent date descending, with a total
\* that is the number of rows returned.
C8_TotalIsReturnedCount ==
    [][(SearchReturned /\ lastResp'.status = 200) =>
          /\ ReturnedRowsRight(db, request', lastResp')
          /\ lastResp'.total = {Len(lastResp'.results)}]_vars

C8_Witness ==
    /\ lastResp.route = "search"
    /\ lastResp.status = 200
    /\ Len(db.email_metadata) > LIMIT
    /\ lastResp.total = {LIMIT}
    /\ Len(lastResp.results) = LIMIT
    /\ Cardinality(Matching(db, request)) > LIMIT

\* C9: the audit log is append-only: every step of startup and of the request
\* handlers leaves the committed audit rows as they are, or adds rows after
\* them.
C9_AuditAppendOnly == [][IsPrefix(db.email_audit_log, db'.email_audit_log)]_vars

C9_Witness ==
    /\ starts > 1
    /\ initPc = "done"
    /\ Len(db.email_audit_log) = Len(audit_logs) + 1
    /\ db.email_audit_log[Len(db.email_audit_log)].action = "search"

\* C10: a search that fails at any step (reading the body, acquiring the
\* connection, the SELECT, the audit INSERT, the commit) is answered with
\* HTTP 500 and an error payload without results, leaves the committed rows
\* of every table as they were, in pooled and in fallback mode, and is not
\* taken up again: the step that answers it acquires nothing.
C10_FailedSearchLeavesNoTrace ==
    [][((SearchReturned \/ lastResp' # lastResp)
        /\ lastResp'.route = "search" /\ lastResp'.status # 200) =>
          /\ lastResp'.status = 500
          /\ lastResp'.body = "error"
          /\ lastResp'.results = <<>>
          /\ lastResp'.total = {}
          /\ Rows(db') = Rows(db)
          /\ inflight'["search"] <= inflight["search"]
          /\ checked_out' <= checked_out
          /\ direct_open' <= direct_open]_vars

C10_Witness ==
    /\ db_pool = "none"
    /\ lastResp.route = "search"
    /\ lastResp.status = 500
    /\ lastResp.error = "DatabaseError"
    /\ db.audit_seq = Len(audit_logs) + 2
    /\ Len(db.email_audit_log) = Len(audit_logs)

=============================================================================
